---- MODULE Spec2Model ----
(***************************************************************************)
(* ClassificationModel (src/BERT/base_model.py): the label index, the      *)
(* batch generator, fit and predict, as a state machine over one instance. *)
(* Scores and thresholds are integers in hundredths (0.61 is 61).          *)
(***************************************************************************)
EXTENDS Integers, Sequences, FiniteSets, TLC

VARIABLES
    multi_label,            \* self.multi_label
    label2idx,              \* self._label2idx
    idx2label,              \* self._idx2label
    multi_label_binarizer,  \* self.multi_label_binarizer
    token2idx,              \* self.embedding.token2idx
    sequence_length,        \* self.embedding.sequence_length
    is_bert,                \* self.embedding.is_bert
    model,                  \* self.model
    generators,             \* the generator objects get_data_generator returned
    fit_locals,             \* the locals of the last fit call when it ended
    call,                   \* the arguments of the last method call
    ret                     \* how the last call ended, and what it returned

vars == <<multi_label, label2idx, idx2label, multi_label_binarizer, token2idx,
          sequence_length, is_bert, model, generators, fit_locals, call, ret>>

----------------------------------------------------------------------------
(* Bounds of the model.                                                    *)

MaxN == 3          \* longest input/label array
MaxBatch == 4      \* largest requested batch size besides the default
MaxPass == 2       \* passes of a generator's outer loop that are followed
MaxIdx == 2        \* largest id assigned through the label2idx setter

(* Program constants.                                                      *)

min_count == 3

----------------------------------------------------------------------------
(* Python helpers.                                                         *)

Min(a, b) == IF a < b THEN a ELSE b

Max(a, b) == IF a < b THEN b ELSE a

Range(f) == {f[k] : k \in DOMAIN f}

\* s[a:b] for 0 <= a <= b
Slice(s, a, b) == SubSeq(s, a + 1, Min(b, Len(s)))

EmptyDict == [k \in {} |-> 0]

----------------------------------------------------------------------------
(* Inputs: sentences are lists of token strings, labels are strings, and   *)
(* a multi-label target is a tuple of labels.                              *)

LabelNames == {"pos", "neg", "neu"}

LabelCycle == <<"pos", "neg", "neu">>

TargetCycle == << <<"pos">>, <<"neg", "neu">>, <<>> >>

Corpus ==
    << <<"good", "film">>, <<"bad">>, <<"good", "good", "film", "good">>,
       <<"bad", "film", "good">>, <<"film">> >>

\* the first n sentences of the corpus, repeated when n is larger
XData(n) == [i \in 1..n |-> Corpus[((i - 1) % Len(Corpus)) + 1]]

\* n targets that run through the cycle from its k-th entry, one entry
\* (stride 0) or each entry in turn (stride 1)
YData(ml, k, stride, n) ==
    [i \in 1..n |-> (IF ml THEN TargetCycle ELSE LabelCycle)[((k + stride * (i - 1)) % 3) + 1]]

YArrays(ml, n) == {YData(ml, k, stride, n) : k \in 0..2, stride \in 0..1}

\* an optional validation set of one example
ValidationSets(ml) == {<<<<>>, <<>>>>, <<XData(1), YData(ml, 2, 0, 1)>>}

----------------------------------------------------------------------------
(* The label index.                                                        *)

\* lines 105-110: the set of labels observed in y_data
LabelSet(ml, y_data) ==
    IF ml THEN UNION {Range(y_data[i]) : i \in DOMAIN y_data}
          ELSE Range(y_data)

\* lines 112-114: enumerate(label_set) numbers the labels 0..n-1 in the set's
\* iteration order, which Python leaves unspecified
Enumerations(label_set) ==
    {f \in [label_set -> 0..(Cardinality(label_set) - 1)] :
        \A a, b \in label_set : a # b => f[a] # f[b]}

\* dict([(val, key) for (key, val) in value.items()]): for a value two keys
\* share, the key that comes last in the dict's order stays
Inverses(value) ==
    {g \in [Range(value) -> DOMAIN value] : \A i \in Range(value) : value[g[i]] = i}

\* MultiLabelBinarizer(classes=list(self.label2idx.keys())): an unfitted
\* binarizer over the keys in the dict's order, which after line 114 is id order
NewBinarizer(l2i) ==
    [none |-> FALSE, fitted |-> FALSE,
     classes |-> [i \in 1..Cardinality(DOMAIN l2i) |->
                     CHOOSE l \in DOMAIN l2i : l2i[l] = i - 1]]

NoBinarizer == [none |-> TRUE, fitted |-> FALSE, classes |-> <<>>]

\* embedding.build_token2idx_dict(x_data, 3): the special tokens, then every
\* token seen at least min_count times
TokenCount(x_data, t) ==
    Cardinality(UNION {{<<i, j>> : j \in {k \in DOMAIN x_data[i] : x_data[i][k] = t}} :
                          i \in DOMAIN x_data})

Specials == <<"[PAD]", "[BOS]", "[EOS]", "[UNK]">>

TokenOrder == <<"bad", "film", "good">>

build_token2idx_dict(x_data, min_freq) ==
    LET kept == SelectSeq(TokenOrder, LAMBDA t : TokenCount(x_data, t) >= min_freq)
        all == Specials \o kept
    IN  [t \in Range(all) |-> (CHOOSE i \in 1..Len(all) : all[i] = t) - 1]

----------------------------------------------------------------------------
(* The collaborators the generator and predict call.  self is the         *)
(* instance they read: its fields at the time of the call.                 *)

\* embedding.tokenize on one sentence: each token's id, the unknown token's
\* for a token outside the vocabulary, between the begin and end markers
tokenize_sentence(self, text) ==
    <<self.token2idx["[BOS]"]>>
        \o [i \in 1..Len(text) |->
               IF text[i] \in DOMAIN self.token2idx THEN self.token2idx[text[i]]
                                                    ELSE self.token2idx["[UNK]"]]
        \o <<self.token2idx["[EOS]"]>>

\* embedding.tokenize on a list of sentences; it reads sentence[0] first
tokenize_raises(sentences) == Len(sentences) = 0

tokenize(self, sentences) ==
    [i \in 1..Len(sentences) |-> tokenize_sentence(self, sentences[i])]

\* sequence.pad_sequences(seqs, maxlen, padding='post'): a longer sequence
\* keeps its last maxlen ids (truncating='pre'), a shorter one gets zeros
\* appended; with maxlen = 0 a sequence that is not empty cannot be stored
pad_raises(seqs, maxlen) == maxlen = 0 /\ \E i \in DOMAIN seqs : Len(seqs[i]) > 0

pad_row(ids, maxlen) ==
    IF Len(ids) >= maxlen
    THEN SubSeq(ids, Len(ids) - maxlen + 1, Len(ids))
    ELSE ids \o [k \in 1..(maxlen - Len(ids)) |-> 0]

pad_sequences(seqs, maxlen) == [i \in 1..Len(seqs) |-> pad_row(seqs[i], maxlen)]

\* keras.utils.to_categorical(ids, num_classes): one one-hot row per id
to_categorical(ids, num_classes) ==
    [i \in 1..Len(ids) |-> [c \in 1..num_classes |-> IF ids[i] = c - 1 THEN 1 ELSE 0]]

\* MultiLabelBinarizer.transform: one multi-hot row per target, a label
\* outside the classes is ignored with a warning
binarizer_transform(classes, targets) ==
    [i \in 1..Len(targets) |->
        [c \in 1..Len(classes) |-> IF classes[c] \in Range(targets[i]) THEN 1 ELSE 0]]

\* MultiLabelBinarizer.inverse_transform on one 0/1 row: the classes at the
\* positions that are set, in class order
RECURSIVE compress(_, _, _)
compress(classes, row, c) ==
    IF c > Len(classes) THEN <<>>
    ELSE (IF row[c] # 0 THEN <<classes[c]>> ELSE <<>>) \o compress(classes, row, c + 1)

inverse_transform_row(classes, row) == compress(classes, row, 1)

----------------------------------------------------------------------------
(* get_data_generator, lines 131-166.  A generator object holds its        *)
(* arguments and the locals of its frame; its body runs when it is pulled. *)

NoBatch == [page |-> 0, target_x |-> <<>>, target_y |-> <<>>,
            x_input_data |-> <<>>, padded_y |-> <<>>]

NoGen == [status |-> "none", x_data |-> <<>>, y_data |-> <<>>, batch_size |-> 0,
          is_bert |-> FALSE, page_list |-> <<>>, consumed |-> 0, pass |-> 0,
          frame |-> NoBatch, error |-> "none"]

\* a call of the generator function: no line of its body has run
NewGen(x_data, y_data, batch_size, bert) ==
    [NoGen EXCEPT !.status = "created", !.x_data = x_data, !.y_data = y_data,
                  !.batch_size = batch_size, !.is_bert = bert]

\* line 137: range((len(x_data) // batch_size) + 1)
PageCount(n, batch_size) == (n \div batch_size) + 1

\* line 138: random.shuffle leaves the pages 0..count-1 in any order
ShufflesWithRepeats(count) == [1..count -> 0..(count - 1)]

Shuffles(count) ==
    {p \in [1..count -> 0..(count - 1)] : \A i, j \in 1..count : i # j => p[i] # p[j]}

\* lines 140-146: the page's slice of data, or the first page when it is empty
PageSliceNoFallback(data, x_data, page, batch_size) ==
    Slice(data, page * batch_size, page * batch_size + batch_size)

PageSliceClipped(data, x_data, page, batch_size) ==
    LET start_index == page * batch_size
        end_index == start_index + batch_size
    IN  IF Len(Slice(x_data, start_index, end_index)) < batch_size
        THEN Slice(data, 0, batch_size)
        ELSE Slice(data, start_index, end_index)

PageSlice(data, x_data, page, batch_size) ==
    LET start_index == page * batch_size
        end_index == start_index + batch_size
    IN  IF Len(Slice(x_data, start_index, end_index)) = 0
        THEN Slice(data, 0, batch_size)
        ELSE Slice(data, start_index, end_index)

\* lines 157-160: the single-label targets, or the error that ends the pull
SingleLabelError(self, target_y) ==
    IF \E i \in DOMAIN target_y : target_y[i] \notin DOMAIN self.label2idx THEN "KeyError"
    ELSE IF \E i \in DOMAIN target_y :
                self.label2idx[target_y[i]] >= Cardinality(DOMAIN self.label2idx)
         THEN "IndexError"
         ELSE "none"

\* lines 148-166: what the body does with one page
PageError(self, g, page) ==
    LET target_x == PageSlice(g.x_data, g.x_data, page, g.batch_size)
        target_y == PageSlice(g.y_data, g.x_data, page, g.batch_size)
    IN  IF tokenize_raises(target_x) THEN "IndexError"
        ELSE IF pad_raises(tokenize(self, target_x), self.sequence_length) THEN "ValueError"
        ELSE IF self.multi_label
             THEN (IF self.multi_label_binarizer.none THEN "AttributeError" ELSE "none")
             ELSE SingleLabelError(self, target_y)

PaddedX(self, target_x) == pad_sequences(tokenize(self, target_x), self.sequence_length)

PageBatch(self, g, page) ==
    LET target_x == PageSlice(g.x_data, g.x_data, page, g.batch_size)
        target_y == PageSlice(g.y_data, g.x_data, page, g.batch_size)
        padded_x == PaddedX(self, target_x)
        padded_y ==
            IF self.multi_label
            THEN binarizer_transform(self.multi_label_binarizer.classes, target_y)
            ELSE to_categorical([i \in 1..Len(target_y) |-> self.label2idx[target_y[i]]],
                                Cardinality(DOMAIN self.label2idx))
        padded_x_seg ==
            [i \in 1..Len(padded_x) |-> [k \in 1..self.sequence_length |-> 0]]
    IN  [page |-> page, target_x |-> target_x, target_y |-> target_y,
         x_input_data |-> IF g.is_bert THEN <<padded_x, padded_x_seg>> ELSE <<padded_x>>,
         padded_y |-> padded_y]

\* the generator after its body ran one page: suspended at the yield, or
\* ended by an exception
PageOutcome(self, g, page) ==
    LET err == PageError(self, g, page)
    IN  IF err # "none"
        THEN [g EXCEPT !.status = "raised", !.error = err, !.frame = NoBatch]
        ELSE [g EXCEPT !.status = "suspended", !.frame = PageBatch(self, g, page)]

RunPage(self, g, page_list, consumed, pass) ==
    LET out == PageOutcome(self, g, page_list[consumed + 1])
    IN  [out EXCEPT !.page_list = page_list, !.pass = pass,
                    !.consumed = IF out.status = "raised" THEN consumed ELSE consumed + 1]

\* next(generator): the states the generator can be in at its next yield, or
\* after the exception that ends it
Pulls(self, g) ==
    IF g.consumed < Len(g.page_list)
    THEN {RunPage(self, g, g.page_list, g.consumed, g.pass)}
    ELSE IF g.batch_size = 0
         THEN {[g EXCEPT !.status = "raised", !.error = "ZeroDivisionError",
                         !.frame = NoBatch]}
         ELSE {RunPage(self, g, p, 0, g.pass + 1) :
                  p \in Shuffles(PageCount(Len(g.x_data), g.batch_size))}

\* line 155: fit_transform fits the binarizer each time a batch is encoded
BinarizerAfter(self, g) ==
    IF self.multi_label /\ g.status = "suspended"
    THEN [self.multi_label_binarizer EXCEPT !.fitted = TRUE]
    ELSE self.multi_label_binarizer

----------------------------------------------------------------------------
(* The instance after __init__, lines 22-55.                               *)

\* self.model: the graph build_model builds has one output per label of the
\* index in force when it runs, and takes rows of the sequence length of then
NoModel == [built |-> FALSE, trained |-> FALSE, num_labels |-> 0, input_length |-> 0]

NoFit == [stage |-> "none", batch_size |-> 0, steps_per_epoch |-> 0,
          validation_steps |-> 0, class_weights |-> "None"]

Returned == [raised |-> "none", shape |-> "none", items |-> <<>>]

Raised(e) == [raised |-> e, shape |-> "none", items |-> <<>>]

NoGenerators == [train_generator |-> NoGen, validation_generator |-> NoGen,
                 data_generator |-> NoGen]

\* the embedding is the caller's: its sequence length is preset or 0 (to be
\* inferred by fit), its vocabulary holds the special tokens
InitWith(multi_labels, berts, lengths) ==
    /\ multi_label \in multi_labels
    /\ label2idx = EmptyDict
    /\ idx2label = EmptyDict
    /\ multi_label_binarizer = NoBinarizer
    /\ token2idx = build_token2idx_dict(<<>>, min_count)
    /\ sequence_length \in lengths
    /\ is_bert \in berts
    /\ model = NoModel
    /\ generators = NoGenerators
    /\ fit_locals = NoFit
    /\ call = [method |-> "__init__"]
    /\ ret = Returned

Init == InitWith(BOOLEAN, BOOLEAN, {0, 4})

instance == <<multi_label, label2idx, idx2label, multi_label_binarizer, token2idx,
              sequence_length, is_bert, model>>

Self == [multi_label |-> multi_label, label2idx |-> label2idx, idx2label |-> idx2label,
         multi_label_binarizer |-> multi_label_binarizer, token2idx |-> token2idx,
         sequence_length |-> sequence_length, is_bert |-> is_bert, model |-> model]

----------------------------------------------------------------------------
(* The label index: build_token2id_label2id_dict and the label2idx setter. *)

\* lines 97-102
JoinData(train, x_validate, validate) ==
    IF Len(x_validate) > 0 THEN train \o validate ELSE train

\* lines 112-114
LabelNumberings(label_set) == Enumerations(label_set)

\* line 116
BuildInverses(l2i) == Inverses(l2i)

\* lines 92-117: the label indexes the call can leave
BuildOutcomes(x_train, y_train, x_validate, y_validate) ==
    LET x_data == JoinData(x_train, x_validate, x_validate)
        y_data == JoinData(y_train, x_validate, y_validate)
    IN  {[label2idx |-> l2i, idx2label |-> i2l,
          multi_label_binarizer |-> NewBinarizer(l2i),
          token2idx |-> build_token2idx_dict(x_data, min_count)] :
            <<l2i, i2l>> \in UNION {{<<f, g>> : g \in BuildInverses(f)} :
                                       f \in LabelNumberings(LabelSet(multi_label, y_data))}}

build_token2id_label2id_dict(x_train, y_train, x_validate, y_validate) ==
    /\ \E b \in BuildOutcomes(x_train, y_train, x_validate, y_validate) :
          /\ label2idx' = b.label2idx
          /\ idx2label' = b.idx2label
          /\ multi_label_binarizer' = b.multi_label_binarizer
          /\ token2idx' = b.token2idx
    /\ call' = [method |-> "build_token2id_label2id_dict", y_train |-> y_train,
                y_validate |-> y_validate]
    /\ ret' = Returned
    /\ UNCHANGED <<multi_label, sequence_length, is_bert, model, generators, fit_locals>>

\* lines 70-73: the inverse the setter leaves
StaleInverse(value) == {idx2label}

SetterInverses(value) == Inverses(value)

SetLabel2idx(value) ==
    /\ label2idx' = value
    /\ \E g \in SetterInverses(value) : idx2label' = g
    /\ call' = [method |-> "label2idx.setter", value |-> value]
    /\ ret' = Returned
    /\ UNCHANGED <<multi_label, multi_label_binarizer, token2idx, sequence_length,
                   is_bert, model, generators, fit_locals>>

\* the dicts a caller assigns
SetterValues == UNION {[S -> 0..MaxIdx] : S \in SUBSET LabelNames}

\* lines 119-129 on one label and on one id
convert_label_to_idx(label) == label2idx[label]

convert_idx_to_label(token) == idx2label[token]

----------------------------------------------------------------------------
(* The label index on its own: any sequence of index builds and setter     *)
(* assignments.                                                            *)

NextLabel ==
    \/ \E n \in 0..MaxN : \E y_train \in YArrays(multi_label, n),
                              v \in ValidationSets(multi_label) :
          build_token2id_label2id_dict(XData(n), y_train, v[1], v[2])
    \/ \E value \in SetterValues : SetLabel2idx(value)

SpecLabel == InitWith(BOOLEAN, {FALSE}, {0}) /\ [][NextLabel]_vars

\* the labels a target array holds
Observed(y) ==
    IF multi_label THEN {l \in LabelNames : \E i \in DOMAIN y : \E j \in DOMAIN y[i] : y[i][j] = l}
                   ELSE {l \in LabelNames : \E i \in DOMAIN y : y[i] = l}

OneToOne(f) == \A a, b \in DOMAIN f : a # b => f[a] # f[b]

RoundTrip ==
    \A l \in DOMAIN label2idx :
        /\ convert_label_to_idx(l) \in DOMAIN idx2label
        /\ convert_idx_to_label(convert_label_to_idx(l)) = l

AfterBuild == call.method = "build_token2id_label2id_dict"

AfterSetter == call.method = "label2idx.setter"

BuiltIndexExact ==
    /\ DOMAIN label2idx = Observed(call.y_train) \cup Observed(call.y_validate)
    /\ OneToOne(label2idx)
    /\ Range(label2idx) = 0..(Cardinality(DOMAIN label2idx) - 1)
    /\ DOMAIN idx2label = Range(label2idx)
    /\ RoundTrip

\* C5 as stated: after a build the index numbers every observed label with a
\* unique id in [0, num_labels) and _idx2label is its exact inverse, and the
\* label -> id -> label round trip also holds after any setter assignment.
C5_AnyAssignment ==
    /\ AfterBuild => BuiltIndexExact
    /\ AfterSetter => RoundTrip

\* C5 amended: after a build the index numbers every observed label with a
\* unique id in [0, num_labels) and _idx2label is its exact inverse; after a
\* setter assignment _idx2label holds, for each assigned id, one label that
\* has that id, so the round trip holds when the assigned dict is one-to-one.
C5_LabelIndexRoundTrip ==
    /\ AfterBuild => BuiltIndexExact
    /\ AfterSetter =>
          /\ DOMAIN idx2label = Range(label2idx)
          /\ \A i \in DOMAIN idx2label : label2idx[idx2label[i]] = i
          /\ OneToOne(label2idx) => RoundTrip

C5_Witness ==
    \/ /\ AfterBuild
       /\ multi_label
       /\ Cardinality(DOMAIN label2idx) = 3
       /\ RoundTrip
    \/ /\ AfterSetter
       /\ OneToOne(label2idx)
       /\ Cardinality(DOMAIN label2idx) = 2
       /\ label2idx # call.value \/ RoundTrip

----------------------------------------------------------------------------
(* The batch generator: a caller's get_data_generator call and its pulls.  *)

\* lines 131-135: calling the generator function only binds its arguments
get_data_generator(x_data, y_data, batch_size) ==
    /\ generators' = [generators EXCEPT
                         !.data_generator = NewGen(x_data, y_data, batch_size, is_bert)]
    /\ call' = [method |-> "get_data_generator"]
    /\ ret' = Returned
    /\ UNCHANGED <<instance, fit_locals>>

\* next(generator): lines 136-166 up to the next yield.  Passes beyond
\* MaxPass are not followed.
GenNext(h) ==
    LET g == generators[h]
    IN  /\ g.status \in {"created", "suspended"}
        /\ g.consumed < Len(g.page_list) \/ g.pass < MaxPass
        /\ \E g2 \in Pulls(Self, g) :
              /\ generators' = [generators EXCEPT ![h] = g2]
              /\ multi_label_binarizer' = BinarizerAfter(Self, g2)
              /\ ret' = IF g2.status = "raised" THEN Raised(g2.error) ELSE Returned
        /\ call' = [method |-> "next", generator |-> h]
        /\ UNCHANGED <<multi_label, label2idx, idx2label, token2idx, sequence_length,
                       is_bert, model, fit_locals>>

NextGen ==
    \/ build_token2id_label2id_dict(XData(MaxN), YData(multi_label, 0, 1, MaxN), <<>>, <<>>)
    \/ \E n \in 0..MaxN, batch_size \in 0..MaxBatch :
          get_data_generator(XData(n), YData(multi_label, 0, 1, n), batch_size)
    \/ GenNext("data_generator")

SpecGen == InitWith(BOOLEAN, BOOLEAN, {4}) /\ [][NextGen]_vars

TheGen == generators.data_generator

Yielded == TheGen.status = "suspended"

\* the token rows and the targets of the batch at the yield
BatchRows == TheGen.frame.x_input_data[1]

BatchTargets == TheGen.frame.padded_y

RowsHaveSequenceLength ==
    \A a \in DOMAIN TheGen.frame.x_input_data :
        \A i \in DOMAIN TheGen.frame.x_input_data[a] :
            Len(TheGen.frame.x_input_data[a][i]) = sequence_length

EmptyPage(g, p) == p * g.batch_size >= Len(g.x_data)

\* C4: for N >= 1 and B >= 1 a page whose slice is empty exists exactly when
\* N mod B = 0; the pull of that page neither skips it nor raises because it
\* is empty (a pull ends in an error only when a label cannot be encoded),
\* and yields the batch built from x_data[0:B] and y_data[0:B], which holds
\* B examples.
C4_EmptyPageSubstituted ==
    (Len(TheGen.x_data) >= 1 /\ TheGen.batch_size >= 1)
    => LET n == Len(TheGen.x_data)
           b == TheGen.batch_size
       IN  /\ (Yielded /\ EmptyPage(TheGen, TheGen.frame.page))
                 => /\ TheGen.frame.target_x = Slice(TheGen.x_data, 0, b)
                    /\ TheGen.frame.target_y = Slice(TheGen.y_data, 0, b)
                    /\ Len(BatchRows) = b
                    /\ Len(BatchTargets) = b
           /\ Len(TheGen.page_list) > 0
                 => ((\E i \in DOMAIN TheGen.page_list : EmptyPage(TheGen, TheGen.page_list[i]))
                        <=> n % b = 0)
           /\ (Yielded /\ TheGen.consumed > 0)
                 => TheGen.frame.page = TheGen.page_list[TheGen.consumed]
           /\ (TheGen.status = "raised" /\ TheGen.consumed < Len(TheGen.page_list)
                  /\ EmptyPage(TheGen, TheGen.page_list[TheGen.consumed + 1]))
                 => TheGen.error \in {"KeyError", "AttributeError"}

C4_Witness ==
    /\ Yielded
    /\ Len(TheGen.x_data) = 2
    /\ TheGen.batch_size = 2
    /\ TheGen.frame.page = 1
    /\ TheGen.frame.target_x = TheGen.x_data
    /\ Len(BatchTargets) = 2

----------------------------------------------------------------------------
(* fit, lines 168-232.                                                     *)

\* lines 195-196
HalveAlways(n, batch_size) == n \div 2

EffectiveBatchSize(n, batch_size) == IF n < batch_size THEN n \div 2 ELSE batch_size

\* line 200: sorted([len(x) for x in x_train])[int(0.95 * len(x_train))]
SortedAt(lens, k) ==
    CHOOSE v \in Range(lens) :
        /\ Cardinality({i \in DOMAIN lens : lens[i] < v}) <= k
        /\ Cardinality({i \in DOMAIN lens : lens[i] <= v}) > k

InferSequenceLength(x_train) ==
    SortedAt([i \in 1..Len(x_train) |-> Len(x_train[i])], (95 * Len(x_train)) \div 100)

\* line 202: build_model of the subclass in use
BuildModel(l2i, length) ==
    [NoModel EXCEPT !.built = TRUE, !.num_labels = Cardinality(DOMAIN l2i),
                    !.input_length = length]

\* the stage at which the call ends, or "fit_generator" when it reaches
\* line 228 with every argument evaluated
FitStage(self, n, n_validate, bs, class_weight) ==
    IF ~self.model.built /\ self.sequence_length = 0 /\ n = 0 THEN "sequence_length"
    ELSE IF n_validate > 0 /\ bs = 0 THEN "validation_steps"
    ELSE IF class_weight /\ self.multi_label /\ n > 0 THEN "class_weight"
    ELSE IF bs = 0 THEN "steps_per_epoch"
    ELSE "fit_generator"

StageError(stage) ==
    CASE stage = "sequence_length" -> "IndexError"
      [] stage = "validation_steps" -> "ZeroDivisionError"
      [] stage = "class_weight" -> "KeyError"
      [] stage = "steps_per_epoch" -> "ZeroDivisionError"
      [] OTHER -> "none"

\* model.fit_generator: the framework pulls the generators it is handed, at
\* least one batch of each, and trains on batches that fit the graph
BatchFits(mdl, g) ==
    /\ \A i \in DOMAIN g.frame.padded_y : Len(g.frame.padded_y[i]) = mdl.num_labels
    /\ \A i \in DOMAIN g.frame.x_input_data[1] :
          Len(g.frame.x_input_data[1][i]) = mdl.input_length

\* the first pull of a generator fit made: any page can come first
FirstPulls(self, g) ==
    {PageOutcome(self, g, page) : page \in 0..(PageCount(Len(g.x_data), g.batch_size) - 1)}

FitGeneratorErrors(self, mdl, train, valid) ==
    {IF g.status = "raised" THEN g.error
     ELSE IF ~BatchFits(mdl, g) THEN "ValueError"
     ELSE "none" : g \in FirstPulls(self, train)}
    \cup (IF valid.status = "none" THEN {}
          ELSE {IF g.status = "raised" THEN g.error
                ELSE IF ~BatchFits(mdl, g) THEN "ValueError"
                ELSE "none" : g \in FirstPulls(self, valid)} \ {"none"})

AssertNothing(x_train, y_train) == TRUE

\* line 192
LengthsAgree(x_train, y_train) == Len(x_train) = Len(y_train)

Fit(x_train, y_train, x_validate, y_validate, batch_size, class_weight) ==
    /\ call' = [method |-> "fit", len_x_train |-> Len(x_train),
                len_y_train |-> Len(y_train), len_x_validate |-> Len(x_validate),
                batch_size |-> batch_size, class_weight |-> class_weight]
    /\ UNCHANGED <<multi_label, is_bert>>
    /\ \E b \in BuildOutcomes(x_train, y_train, x_validate, y_validate) :
       LET n == Len(x_train)
           bs == EffectiveBatchSize(n, batch_size)
           stage == FitStage(Self, n, Len(x_validate), bs, class_weight)
           length == IF ~model.built /\ sequence_length = 0 /\ n > 0
                     THEN InferSequenceLength(x_train)
                     ELSE sequence_length
           mdl == IF model.built \/ stage = "sequence_length" THEN model
                  ELSE BuildModel(b.label2idx, length)
           self == [Self EXCEPT !.label2idx = b.label2idx, !.idx2label = b.idx2label,
                                !.multi_label_binarizer = b.multi_label_binarizer,
                                !.token2idx = b.token2idx, !.sequence_length = length,
                                !.model = mdl]
           train == IF stage = "sequence_length" THEN NoGen
                    ELSE NewGen(x_train, y_train, bs, is_bert)
           valid == IF stage = "sequence_length" \/ Len(x_validate) = 0 THEN NoGen
                    ELSE NewGen(x_validate, y_validate, bs, is_bert)
           pulled == stage = "fit_generator"
       IN  IF ~LengthsAgree(x_train, y_train)
           THEN /\ ret' = Raised("AssertionError")
                /\ UNCHANGED <<label2idx, idx2label, multi_label_binarizer, token2idx,
                               sequence_length, model, generators, fit_locals>>
           ELSE \E err \in (IF pulled THEN FitGeneratorErrors(self, mdl, train, valid)
                                      ELSE {StageError(stage)}) :
                /\ label2idx' = b.label2idx
                /\ idx2label' = b.idx2label
                /\ token2idx' = b.token2idx
                /\ sequence_length' = length
                /\ multi_label_binarizer' =
                      IF pulled /\ multi_label /\ err \in {"none", "ValueError"}
                      THEN [b.multi_label_binarizer EXCEPT !.fitted = TRUE]
                      ELSE b.multi_label_binarizer
                /\ model' = IF pulled /\ err = "none"
                            THEN [mdl EXCEPT !.trained = TRUE]
                            ELSE mdl
                /\ generators' = [generators EXCEPT !.train_generator = train,
                                                    !.validation_generator = valid]
                /\ fit_locals' =
                      [stage |-> IF err = "none" THEN "done" ELSE stage,
                       batch_size |-> bs,
                       steps_per_epoch |-> IF pulled THEN n \div bs ELSE 0,
                       validation_steps |->
                           IF valid.status # "none" /\ bs # 0
                           THEN Max(Len(x_validate) \div bs, 1) ELSE 0,
                       class_weights |->
                           IF class_weight /\ stage \in {"steps_per_epoch", "fit_generator"}
                           THEN "balanced" ELSE "None"]
                /\ ret' = IF err = "none" THEN Returned ELSE Raised(err)

\* the batch sizes a caller asks for
BatchSizes == (1..MaxBatch) \cup {64}

NextFit ==
    \/ \E n \in 0..MaxN, stride \in 0..1, batch_size \in BatchSizes :
          Fit(XData(n), YData(multi_label, stride, stride, n), <<>>, <<>>, batch_size, FALSE)
    \/ \E n \in 0..MaxN, batch_size \in {1, 64} :
          Fit(XData(n), YData(multi_label, 0, 1, n), XData(1), YData(multi_label, 2, 0, 1),
              batch_size, FALSE)
    \/ \E n \in 0..MaxN :
          Fit(XData(n), YData(multi_label, 0, 1, n), <<>>, <<>>, 1, TRUE)
    \/ Fit(XData(10), YData(multi_label, 0, 1, 10), <<>>, <<>>, 64, FALSE)

SpecFit == InitWith(BOOLEAN, {FALSE}, {0, 4}) /\ [][NextFit]_vars

\* fit calls whose arrays may differ in length
NextFitLengths ==
    \E n \in 0..MaxN, m \in 0..MaxN, batch_size \in {1, 64} :
        Fit(XData(n), YData(multi_label, 0, 1, m), <<>>, <<>>, batch_size, FALSE)

SpecFitLengths == InitWith(BOOLEAN, {FALSE}, {0, 4}) /\ [][NextFitLengths]_vars

----------------------------------------------------------------------------
(* Claims about fit.                                                        *)

AfterFit == call.method = "fit" /\ ret.raised # "AssertionError"

\* the batch size lines 195-196 leave for a call
Halved == IF call.len_x_train < call.batch_size THEN call.len_x_train \div 2
                                                ELSE call.batch_size

\* C2: when len(x_train) < batch_size the effective batch size is
\* len(x_train) // 2 (10 examples and batch size 64 give 5), otherwise the
\* requested one, and that one value is the batch size of the training
\* generator, of the validation generator, of steps_per_epoch and of
\* validation_steps.
C2_EffectiveBatchSize ==
    AfterFit =>
       /\ fit_locals.batch_size = Halved
       /\ generators.train_generator.status # "none"
             => generators.train_generator.batch_size = Halved
       /\ generators.validation_generator.status # "none"
             => generators.validation_generator.batch_size = Halved
       /\ fit_locals.stage \in {"fit_generator", "done"}
             => fit_locals.steps_per_epoch = call.len_x_train \div Halved
       /\ (fit_locals.stage \in {"class_weight", "fit_generator", "done"}
              /\ call.len_x_validate > 0)
             => fit_locals.validation_steps = Max(call.len_x_validate \div Halved, 1)
       /\ (call.len_x_train = 10 /\ call.batch_size = 64) => fit_locals.batch_size = 5

C2_Witness ==
    \/ /\ AfterFit
       /\ call.len_x_train = 10
       /\ call.batch_size = 64
       /\ generators.train_generator.batch_size = 5
       /\ fit_locals.steps_per_epoch = 2
    \/ /\ AfterFit
       /\ call.len_x_train = 3
       /\ call.batch_size = 64
       /\ generators.validation_generator.batch_size = 1
       /\ fit_locals.validation_steps = 1
       /\ fit_locals.stage = "done"

\* C3 as stated: for N >= 1 and a requested batch size above N, fit does not
\* fail: the effective batch size is at least 1, steps_per_epoch = N //
\* batch_size is computed, and the training generator yields a first batch.
C3_HalvingNeverFails ==
    (AfterFit /\ call.len_x_train >= 1 /\ call.batch_size > call.len_x_train
              /\ ~call.class_weight)
    => /\ ret.raised = "none"
       /\ fit_locals.batch_size >= 1
       /\ fit_locals.stage = "done"
       /\ fit_locals.steps_per_epoch = call.len_x_train \div fit_locals.batch_size
       /\ \A g \in Pulls(Self, generators.train_generator) : g.status = "suspended"

\* C6 as stated: once the model graph is built and trained, a later fit call
\* (here: one with at least one example) does not change the label index: it
\* keeps its labels, and with them the size the graph was built for.
C6_LabelIndexFixed ==
    [][(model.trained /\ call'.method = "fit" /\ call'.len_x_train >= 1)
          => /\ DOMAIN label2idx' = DOMAIN label2idx
             /\ Cardinality(DOMAIN label2idx') = model.num_labels]_vars

\* C10: a fit call whose x_train and y_train differ in length ends in an
\* AssertionError and changes nothing: the label index, the binarizer, the
\* vocabulary, the sequence length and the model stay as they were, and no
\* generator is made.
C10_LengthMismatchChangesNothing ==
    [][(call'.method = "fit" /\ call'.len_x_train # call'.len_y_train)
          => /\ ret'.raised = "AssertionError"
             /\ UNCHANGED <<label2idx, idx2label, multi_label_binarizer, token2idx,
                            sequence_length, model, generators, fit_locals>>]_vars

C10_Witness ==
    /\ call.method = "fit"
    /\ call.len_x_train = 2
    /\ call.len_y_train = 3
    /\ ret.raised = "AssertionError"
    /\ model.trained
    /\ Cardinality(DOMAIN label2idx) = 2
    /\ generators.train_generator.status = "created"

----------------------------------------------------------------------------
(* predict, lines 250-315, and _format_output_dic, lines 234-248.          *)

\* a Python value in the list predict is given: a token string, or a
\* sentence (a list of token strings)
Str(t) == [type |-> "str", tokens |-> <<t>>]

Lst(tokens) == [type |-> "list", tokens |-> tokens]

\* line 266: is_list = not isinstance(sentence[0], str)
IsListByLength(sentence) == Len(sentence) > 1

IsList(sentence) == sentence[1].type # "str"

\* lines 297-299: words_list
WordsList(sentence) ==
    IF IsList(sentence)
    THEN [i \in 1..Len(sentence) |-> sentence[i].tokens]
    ELSE << [i \in 1..Len(sentence) |-> sentence[i].tokens[1]] >>

\* lines 284-285 on one row: res[res >= t] = 1, then res[res < t] = 0
ThresholdStrict(row, t) ==
    [c \in DOMAIN row |-> IF row[c] > t THEN 100 ELSE 0]

Threshold(row, t) ==
    LET ones == [c \in DOMAIN row |-> IF row[c] >= t THEN 100 ELSE row[c]]
    IN  [c \in DOMAIN row |-> IF ones[c] < t THEN 0 ELSE ones[c]]

\* line 288 on one row: the first position of the largest score, from 0
Argmax(row) ==
    (CHOOSE c \in DOMAIN row :
        /\ \A d \in DOMAIN row : row[d] <= row[c]
        /\ \A d \in DOMAIN row : d < c => row[d] < row[c]) - 1

\* line 235: the positions of a row by falling score, equal scores in
\* position order (sorted is stable)
Ranked(row) ==
    CHOOSE p \in [DOMAIN row -> DOMAIN row] :
        /\ \A i, j \in DOMAIN row : i # j => p[i] # p[j]
        /\ \A i, j \in DOMAIN row :
              i < j => \/ row[p[i]] > row[p[j]]
                       \/ row[p[i]] = row[p[j]] /\ p[i] < p[j]

\* lines 234-248
format_output_dic(self, words, row) ==
    LET results == Ranked(row)
        candidates == [i \in DOMAIN row |->
                          [name |-> self.idx2label[results[i] - 1],
                           confidence |-> row[results[i]]]]
    IN  [kind |-> "dict", words |-> words, class |-> candidates[1],
         class_candidates |-> candidates]

FormatError(self, res) ==
    IF \E i \in DOMAIN res : \E c \in DOMAIN res[i] : (c - 1) \notin DOMAIN self.idx2label
    THEN "KeyError"
    ELSE IF \E i \in DOMAIN res : Len(res[i]) = 0 THEN "IndexError"
    ELSE "none"

\* line 309: multi_label_binarizer.inverse_transform
InverseTransformError(self, predict_result) ==
    IF self.multi_label_binarizer.none THEN "AttributeError"
    ELSE IF ~self.multi_label_binarizer.fitted THEN "NotFittedError"
    ELSE IF \E i \in DOMAIN predict_result :
                \/ Len(predict_result[i]) # Len(self.multi_label_binarizer.classes)
                \/ \E c \in DOMAIN predict_result[i] : predict_result[i][c] \notin {0, 100}
         THEN "ValueError"
         ELSE "none"

\* line 311: convert_idx_to_label on the argmax of each row
ConvertError(self, predict_result) ==
    IF \E i \in DOMAIN predict_result : predict_result[i] \notin DOMAIN self.idx2label
    THEN "KeyError" ELSE "none"

\* lines 265-279: the error that ends the call before the model answers
InputError(self, sentence) ==
    IF Len(sentence) = 0 THEN "IndexError"
    ELSE IF self.sequence_length = 0 THEN "ValueError"
    ELSE IF ~self.model.built THEN "AttributeError"
    ELSE IF self.sequence_length # self.model.input_length THEN "ValueError"
    ELSE "none"

\* lines 281-315: what predict returns for the scores res the model gave
PredictReturn(self, sentence, output_dict, multi_label_threshold, res) ==
    LET is_list == IsList(sentence)
        thresholded == [i \in DOMAIN res |-> Threshold(res[i], multi_label_threshold)]
        \* res is thresholded in place: predict_result and res are one array
        res_after == IF self.multi_label THEN thresholded ELSE res
        argmax_error == ~self.multi_label /\ \E i \in DOMAIN res : Len(res[i]) = 0
        predict_result == IF self.multi_label THEN thresholded
                          ELSE [i \in DOMAIN res |-> Argmax(res[i])]
        err == IF argmax_error THEN "ValueError"
               ELSE IF output_dict THEN FormatError(self, res_after)
               ELSE IF self.multi_label THEN InverseTransformError(self, predict_result)
               ELSE ConvertError(self, predict_result)
        results ==
            IF output_dict
            THEN [i \in DOMAIN res |->
                     format_output_dic(self, WordsList(sentence)[i], res_after[i])]
            ELSE IF self.multi_label
            THEN [i \in DOMAIN res |->
                     [kind |-> "tuple",
                      names |-> inverse_transform_row(self.multi_label_binarizer.classes,
                                                      predict_result[i])]]
            ELSE [i \in DOMAIN res |->
                     [kind |-> "label", name |-> self.idx2label[predict_result[i]]]]
    IN  IF err # "none" THEN Raised(err)
        ELSE IF is_list THEN [raised |-> "none", shape |-> "list", items |-> results]
        ELSE [raised |-> "none", shape |-> "single", items |-> <<results[1]>>]

\* line 279: the model answers one row of scores per padded row, one score
\* per output; res is what it answered
Predict(sentence, output_dict, multi_label_threshold, res) ==
    /\ call' = [method |-> "predict", sentence |-> sentence, output_dict |-> output_dict,
                multi_label_threshold |-> multi_label_threshold, res |-> res]
    /\ ret' = IF InputError(Self, sentence) # "none"
              THEN Raised(InputError(Self, sentence))
              ELSE PredictReturn(Self, sentence, output_dict, multi_label_threshold, res)
    /\ UNCHANGED <<instance, generators, fit_locals>>

\* the scores of a sigmoid or softmax output, in hundredths
Scores == {40, 61, 70}

ScoreRows(k) == [1..k -> Scores]

Reversed(row) == [c \in DOMAIN row |-> row[Len(row) + 1 - c]]

\* what the model can answer for a call
ModelOutputs(self, sentence) ==
    IF InputError(self, sentence) # "none" THEN {<<>>}
    ELSE IF IsList(sentence) /\ Len(sentence) = 2
    THEN {<<row, Reversed(row)>> : row \in ScoreRows(self.model.num_labels)}
    ELSE {<<row>> : row \in ScoreRows(self.model.num_labels)}

PredictInputs ==
    { <<>>,
      <<Str("good"), Str("film")>>,
      <<Lst(<<"good", "film">>)>>,
      <<Lst(<<"bad">>), Lst(<<"good", "film">>)>> }

Thresholds == {60, 61, 110}

NextPredict ==
    \/ \E n \in {1, 3}, batch_size \in {1, 64} :
          /\ n = 1 <=> batch_size = 64
          /\ Fit(XData(n), YData(multi_label, 0, 1, n), <<>>, <<>>, batch_size, FALSE)
    \/ \E sentence \in PredictInputs, output_dict \in BOOLEAN,
          multi_label_threshold \in Thresholds :
          \* the threshold is read only on the multi-label path
          /\ (multi_label /\ ~output_dict) \/ multi_label_threshold = 60
          /\ \E res \in ModelOutputs(Self, sentence) :
                Predict(sentence, output_dict, multi_label_threshold, res)

SpecPredict == InitWith(BOOLEAN, {FALSE}, {0}) /\ [][NextPredict]_vars

----------------------------------------------------------------------------
(* Claims about predict.                                                   *)

AfterPredict == call.method = "predict"

Returned_Normally == AfterPredict /\ ret.raised = "none"

\* the last fit ran to its end, so the model is trained on the label index
\* in force
Fitted == fit_locals.stage = "done"

ItemKind == IF call.output_dict THEN "dict"
            ELSE IF multi_label THEN "tuple" ELSE "label"

\* C7: predict on a single sentence (a list of token strings) returns one
\* result, and on a list of sentences a list with one result per sentence (one
\* element for a list of one sentence), each a dict, a label tuple or a label
\* by output_dict and multi_label; on a fitted model every non-empty input is
\* answered that way.
C7_ReturnShape ==
    /\ Returned_Normally =>
          /\ call.sentence[1].type = "str" =>
                ret.shape = "single" /\ Len(ret.items) = 1
          /\ call.sentence[1].type = "list" =>
                ret.shape = "list" /\ Len(ret.items) = Len(call.sentence)
          /\ \A i \in DOMAIN ret.items : ret.items[i].kind = ItemKind
    /\ (AfterPredict /\ Fitted /\ Len(call.sentence) > 0) => ret.raised = "none"

C7_Witness ==
    /\ Returned_Normally
    /\ call.sentence = <<Lst(<<"good", "film">>)>>
    /\ ret.shape = "list"
    /\ Len(ret.items) = 1
    /\ multi_label
    /\ call.output_dict

\* the positions of row whose raw score reaches t
Reached(row, t) == {c \in DOMAIN row : row[c] >= t}

\* C8: for a multi-label model and threshold t, predict with
\* output_dict=False decodes each row of scores to exactly the labels whose
\* raw score is >= t, each once; scores <<0.7, 0.4, 0.61>> with t = 0.6 decode
\* to the labels at indices 0 and 2; a fitted model answers every non-empty
\* input so.
C8_ThresholdDecoding ==
    /\ (Returned_Normally /\ multi_label /\ ~call.output_dict) =>
          \A i \in DOMAIN ret.items :
             LET row == call.res[i]
                 t == call.multi_label_threshold
                 names == ret.items[i].names
             IN  /\ Range(names) = {idx2label[c - 1] : c \in Reached(row, t)}
                 /\ Len(names) = Cardinality(Reached(row, t))
                 /\ (row = <<70, 40, 61>> /\ t = 60) =>
                        names = <<idx2label[0], idx2label[2]>>
    /\ (AfterPredict /\ multi_label /\ ~call.output_dict /\ Fitted
          /\ Len(call.sentence) > 0) => Returned_Normally

C8_Witness ==
    /\ Returned_Normally
    /\ multi_label
    /\ ~call.output_dict
    /\ call.multi_label_threshold = 60
    /\ call.res[1] = <<70, 40, 61>>
    /\ ret.items[1].names = <<idx2label[0], idx2label[2]>>

\* C9 as stated: with output_dict=True, on a fitted model, every result
\* lists every known label once, in order of non-increasing model score, each
\* with the score the model gave that label as its confidence, and 'class' is
\* the first candidate.
C9_RankedByModelScore ==
    (Returned_Normally /\ call.output_dict /\ Fitted) =>
        \A i \in DOMAIN ret.items :
           LET candidates == ret.items[i].class_candidates
               score(j) == call.res[i][label2idx[candidates[j].name] + 1]
           IN  /\ {candidates[j].name : j \in DOMAIN candidates} = DOMAIN label2idx
               /\ Len(candidates) = Cardinality(DOMAIN label2idx)
               /\ \A j, k \in DOMAIN candidates : j < k => score(j) >= score(k)
               /\ \A j \in DOMAIN candidates : candidates[j].confidence = score(j)
               /\ ret.items[i].class = candidates[1]

----------------------------------------------------------------------------
(* Claims about the order of the generator's pages.                        *)

\* the slice a yielded batch must be built from: the page's own slice, or,
\* where substituted is set and that slice is empty, the first page
ExpectedSlice(data, n, p, b, substituted) ==
    IF substituted /\ p * b >= n THEN Slice(data, 0, b)
                                 ELSE Slice(data, p * b, p * b + b)

\* a pull of the generator that ends at a yield: the pass's page list holds
\* every page 0..N // B once; the pull takes the next page of that list, and
\* a new pass starts only when the list is used up; the batch is the
\* expected slice of x_data, in order, with the labels at the same
\* positions; every example lies in a page of the pass.
PageOrderStep(substituted) ==
    LET g == generators.data_generator
        g2 == generators'.data_generator
        n == Len(g2.x_data)
        b == g2.batch_size
        p == g2.frame.page
    IN  (call'.method = "next" /\ g2.status = "suspended" /\ n >= 1 /\ b >= 1)
        => /\ g2.page_list \in Shuffles((n \div b) + 1)
           /\ IF g.consumed < Len(g.page_list)
              THEN /\ g2.pass = g.pass
                   /\ g2.page_list = g.page_list
                   /\ g2.consumed = g.consumed + 1
              ELSE /\ g2.pass = g.pass + 1
                   /\ g2.consumed = 1
           /\ p = g2.page_list[g2.consumed]
           /\ g2.frame.target_x = ExpectedSlice(g2.x_data, n, p, b, substituted)
           /\ g2.frame.target_y = ExpectedSlice(g2.y_data, n, p, b, substituted)
           /\ g2.frame.x_input_data[1] = PaddedX(Self, g2.frame.target_x)
           /\ Len(g2.frame.padded_y) = Len(g2.frame.target_y)
           /\ \A i \in 1..n : \E q \in Range(g2.page_list) :
                 q * b < i /\ i <= q * b + b

\* C11 as stated: in each pass every page 0..N // B is emitted once, in some
\* order, before any page of the next pass, and each batch is the slice
\* x_data[p*B:(p+1)*B] with the labels y_data[p*B:(p+1)*B].
C11_EveryBatchIsItsSlice == [][PageOrderStep(FALSE)]_vars

\* C11 amended: in each pass every page 0..N // B is emitted once, in some
\* order, before any page of the next pass; a batch is the slice
\* x_data[p*B:(p+1)*B] in original order with the labels
\* y_data[p*B:(p+1)*B], except that the empty trailing page (N mod B = 0)
\* emits x_data[0:B] with y_data[0:B] again; every example is emitted at
\* least once per pass, with its own label.
C11_PagesOncePerPass == [][PageOrderStep(TRUE)]_vars

C11_Witness ==
    /\ Yielded
    /\ TheGen.pass = 2
    /\ Len(TheGen.x_data) = 3
    /\ TheGen.batch_size = 2
    /\ TheGen.page_list = <<1, 0>>
    /\ TheGen.consumed = 2
    /\ TheGen.frame.target_x = Slice(TheGen.x_data, 0, 2)
    /\ TheGen.frame.target_y = Slice(TheGen.y_data, 0, 2)

----------------------------------------------------------------------------
(* The CNN script: load_data_and_label, lines 36-63 of                     *)
(* CNN/CNN+glove+Senntiment.py.  A line of a file is a sequence of         *)
(* characters, a file a sequence of lines.                                 *)

MaxLines == 3

Whitespace == {" ", "\n"}

RECURSIVE lstrip(_)
lstrip(line) ==
    IF line = <<>> \/ Head(line) \notin Whitespace THEN line ELSE lstrip(Tail(line))

RECURSIVE rstrip(_)
rstrip(line) ==
    IF line = <<>> \/ line[Len(line)] \notin Whitespace THEN line
    ELSE rstrip(SubSeq(line, 1, Len(line) - 1))

\* line 41: line.strip()
strip(line) == rstrip(lstrip(line))

\* line 41: jieba.cut gives the words of the text and each blank between
\* them, in order
RECURSIVE cut(_)
cut(text) ==
    IF text = <<>> THEN <<>>
    ELSE IF Head(text) \in Whitespace THEN << <<Head(text)>> >> \o cut(Tail(text))
    ELSE LET k == CHOOSE k \in 1..Len(text) :
                     /\ \A i \in 1..k : text[i] \notin Whitespace
                     /\ k = Len(text) \/ text[k + 1] \in Whitespace
         IN  <<SubSeq(text, 1, k)>> \o cut(SubSeq(text, k + 1, Len(text)))

\* line 41: ' '.join(words)
RECURSIVE join(_)
join(words) ==
    IF words = <<>> THEN <<>>
    ELSE IF Len(words) = 1 THEN words[1]
    ELSE words[1] \o <<" ">> \o join(Tail(words))

\* lines 41 and 47
Segmented(lines) == [i \in 1..Len(lines) |-> join(cut(strip(lines[i])))]

\* line 56
positive_labels(positive_texts, negative_texts) == [i \in 1..Len(negative_texts) |-> 1]

\* line 57
negative_labels(negative_texts) == [i \in 1..Len(negative_texts) |-> 0]

\* lines 36-63
load_data_and_label(pos_file, neg_file) ==
    LET positive_texts == Segmented(pos_file)
        negative_texts == Segmented(neg_file)
        x_text == positive_texts \o negative_texts
        y == positive_labels(positive_texts, negative_texts) \o negative_labels(negative_texts)
    IN  /\ call' = [method |-> "load_data_and_label",
                    pos_file |-> pos_file, neg_file |-> neg_file]
        /\ ret' = [raised |-> "none", shape |-> "pair", items |-> <<x_text, y>>]
        /\ UNCHANGED <<instance, generators, fit_locals>>

FileLines == { <<"a", " ", "b", "\n">>, <<" ", "c", "\n">> }

Files == UNION {[1..n -> FileLines] : n \in 0..MaxLines}

NextLoad ==
    \E pos_file \in Files, neg_file \in Files : load_data_and_label(pos_file, neg_file)

SpecLoad == InitWith({FALSE}, {FALSE}, {0}) /\ [][NextLoad]_vars

\* C12 as stated: load_data_and_label returns x_text and y of the same
\* length, the number of positive lines plus the number of negative lines,
\* with y[i] = 1 at the index of each positive text and y[i] = 0 at the
\* index of each negative text, also when the two files differ in length.
C12_LabelsAligned ==
    call.method = "load_data_and_label" =>
        LET x_text == ret.items[1]
            y == ret.items[2]
            positives == Len(call.pos_file)
            negatives == Len(call.neg_file)
        IN  /\ Len(x_text) = positives + negatives
            /\ Len(y) = Len(x_text)
            /\ \A i \in DOMAIN y : y[i] = IF i <= positives THEN 1 ELSE 0

====
